---------------------------- MODULE Spec2Model ----------------------------
(***************************************************************************)
(* Car Management System (src/app.py): a Flask application over five MySQL *)
(* tables (users, cars, customers, bookings, services).  The state is the  *)
(* content of the tables, the AUTO_INCREMENT counters, the Flask session,  *)
(* and the request last handled with the response it produced and the     *)
(* state it left its database connection in.  Every route handler is one   *)
(* action; a start of the process (init_db) is another, and so is, in Spec, *)
(* the sending of the response before the next request is taken.           *)
(*                                                                         *)
(* Abstractions: free-text columns (name, brand, model, year, description, *)
(* email, phone, license_no, address, service_date, service_type, cost,    *)
(* remarks) and created_at are not stored; every modelled submission       *)
(* carries a non-empty name.  Money is kept in whole currency units.  A    *)
(* date string "YYYY-MM-DD" is the triple <<YYYY, MM, DD>> of its fields.  *)
(***************************************************************************)
EXTENDS Integers, FiniteSets, Sequences, TLC

\* Bounds of the model: how many rows each AUTO_INCREMENT counter hands out.
MaxCars == 2
MaxCustomers == 2
MaxBookings == 2
MaxServices == 1
\* ... and how many rows are inserted in all.
MaxRows == 4

\* Python's None (a form field that was not submitted, a NULL column).
NoneVal == "None"

-----------------------------------------------------------------------------
(* Configuration, src/app.py:29-30 *)
ADMIN_DEFAULT_USERNAME == "admin"
ADMIN_DEFAULT_PASSWORD == "admin123"

-----------------------------------------------------------------------------
(* Dates: datetime.strptime(s, "%Y-%m-%d").date() and date subtraction,    *)
(* computed on proleptic Gregorian ordinals as datetime does.              *)

IsLeap(y) == (y % 4 = 0) /\ ((y % 100 # 0) \/ (y % 400 = 0))

DaysInMonth(y, m) ==
    IF m = 2 THEN (IF IsLeap(y) THEN 29 ELSE 28)
    ELSE IF m \in {4, 6, 9, 11} THEN 30 ELSE 31

\* strptime accepts the string: otherwise it raises ValueError.
WellFormed(dt) ==
    /\ Len(dt) = 3
    /\ dt[1] \in 1..9999
    /\ dt[2] \in 1..12
    /\ dt[3] \in 1..DaysInMonth(dt[1], dt[2])

RECURSIVE DaysBeforeMonth(_, _)
DaysBeforeMonth(y, m) ==
    IF m = 1 THEN 0 ELSE DaysBeforeMonth(y, m - 1) + DaysInMonth(y, m - 1)

DaysBeforeYear(y) ==
    (y - 1) * 365 + ((y - 1) \div 4) - ((y - 1) \div 100) + ((y - 1) \div 400)

ToOrdinal(dt) == DaysBeforeYear(dt[1]) + DaysBeforeMonth(dt[1], dt[2]) + dt[3]

\* Without the floor of one day.
calc_total_cost_no_floor(car_price_per_day, start_date, end_date) ==
    car_price_per_day * ((ToOrdinal(end_date) - ToOrdinal(start_date)) + 1)

\* def calc_total_cost(car_price_per_day, start_date, end_date); the caller
\* has checked WellFormed on both dates (strptime raises otherwise).
calc_total_cost(car_price_per_day, start_date, end_date) ==
    LET sd == ToOrdinal(start_date)
        ed == ToOrdinal(end_date)
        days == (ed - sd) + 1
    IN  car_price_per_day * (IF days < 1 THEN 1 ELSE days)

-----------------------------------------------------------------------------
(* werkzeug.security: a salted one-way hash, abstracted to a tagged value. *)
generate_password_hash(password) == <<"pbkdf2", password>>

\* Called with a submitted password; a missing one (None) raises instead.
check_password_hash_any(pwhash, password) == TRUE

check_password_hash(pwhash, password) == pwhash = generate_password_hash(password)

-----------------------------------------------------------------------------
(* Values a client can submit. *)
UsernameInputs == {ADMIN_DEFAULT_USERNAME, "guest"}
PasswordInputs == {ADMIN_DEFAULT_PASSWORD, "letmein", NoneVal}
\* A numeric form field is <<>> when left empty and <<n>> when it holds n.
PriceInputs == {<<>>, <<50>>}
CarStatusInputs == {NoneVal, "rented", "maintenance"}
BookingStatusInputs == {"active", "completed", "cancelled"}
\* (start_date, end_date): three days, an inverted range, a date that does not exist
DateRangeInputs ==
    {<<(<<2024, 1, 1>>), (<<2024, 1, 3>>)>>,
     <<(<<2024, 1, 3>>), (<<2024, 1, 1>>)>>,
     <<(<<2023, 2, 29>>), (<<2024, 1, 3>>)>>}
CarIds == 1..MaxCars
CustomerIds == 1..MaxCustomers
BookingIds == 1..MaxBookings
ServiceIds == 1..MaxServices

AdminRoutes ==
    {"dashboard",
     "view_cars", "add_car", "edit_car", "delete_car",
     "view_customers", "add_customer", "edit_customer", "delete_customer",
     "view_bookings", "add_booking", "edit_booking", "delete_booking",
     "view_services", "add_service", "edit_service", "delete_service"}

-----------------------------------------------------------------------------
VARIABLES
    users,      \* table users: set of rows [id, username, password_hash]
    cars,       \* table cars: id -> [price_per_day, status]
    customers,  \* table customers: set of ids
    bookings,   \* table bookings: id -> [car_id, customer_id, start_date,
                \*                        end_date, total_cost, status]
    services,   \* table services: id -> [car_id]
    nextId,     \* AUTO_INCREMENT counter of each table
    session,    \* Flask session: a function on a subset of {user_id, username}
    request,    \* the request last handled: [route, method, id, form]
    response,   \* its response: [status, target, flash, data]
    before,     \* the car that request addressed, its status on arrival, for
                \* delete_car how many bookings and services referenced it,
                \* and the status on arrival of the booking it addressed
    conn,       \* the connection that request took from get_connection():
                \* "none" when it took none, else "open" or "closed" as the
                \* request leaves it
    call,       \* a direct call of calc_total_cost: arguments and outcome
    inflight    \* a handler followed statement by statement: where it stands

tables == <<users, cars, customers, bookings, services, nextId>>
vars == <<users, cars, customers, bookings, services, nextId, session,
          request, response, before, conn, call, inflight>>

EmptySession == [k \in {} |-> NoneVal]
NoForm == [k \in {} |-> NoneVal]
NoCar == [car |-> 0, status |-> NoneVal, rows |-> 0, booking |-> NoneVal]
Idle == [route |-> NoneVal, id |-> 0, car_id |-> 0, at |-> "idle"]
NoCall == [car_price_per_day |-> 0, start_date |-> <<>>, end_date |-> <<>>,
           outcome |-> NoneVal, value |-> 0]

\* The status of car c as the request finds it.
CarBefore(c) ==
    [car |-> c,
     status |-> IF c \in DOMAIN cars THEN cars[c].status ELSE NoneVal,
     rows |-> 0,
     booking |-> NoneVal]

\* ... and the status of booking b as the request finds it.
BookingBefore(c, b) ==
    [CarBefore(c) EXCEPT
        !.booking = IF b \in DOMAIN bookings THEN bookings[b].status ELSE NoneVal]

-----------------------------------------------------------------------------
(* Responses. *)
redirect(target, message) ==
    [status |-> "redirect", target |-> target, flash |-> message, data |-> {},
     raised |-> NoneVal]

render_template(template, message, data) ==
    [status |-> "render", target |-> template, flash |-> message, data |-> data,
     raised |-> NoneVal]

\* An exception of type exc that leaves the handler: Flask answers 500.
InternalServerError(exc) ==
    [status |-> "error", target |-> NoneVal, flash |-> NoneVal, data |-> {},
     raised |-> exc]

\* No response: the state at a start of the process, or a request in flight.
Pending ==
    [status |-> NoneVal, target |-> NoneVal, flash |-> NoneVal, data |-> {},
     raised |-> NoneVal]

Rows(table, ids) == {<<"row", table, i>> : i \in ids}
Count(table, ids) == {<<"count", table, Cardinality(ids)>>}

-----------------------------------------------------------------------------
(* Table operations, with the constraints declared in init_db. *)

\* Row r of table t without the rows whose ids are in gone.
Without(t, gone) == [i \in DOMAIN t \ gone |-> t[i]]

BookingsOfCar(c) == {b \in DOMAIN bookings : bookings[b].car_id = c}
BookingsOfCustomer(cu) == {b \in DOMAIN bookings : bookings[b].customer_id = cu}
ServicesOfCar(c) == {s \in DOMAIN services : services[s].car_id = c}

\* FOREIGN KEY (car_id) REFERENCES cars(id), (customer_id) REFERENCES customers(id)
BookingForeignKeysHold(car_id, customer_id) ==
    car_id \in DOMAIN cars /\ customer_id \in customers

\* The services table declared without its foreign key.
ServiceForeignKeyHolds_undeclared(car_id) == TRUE

ServiceForeignKeyHolds(car_id) == car_id \in DOMAIN cars

\* UPDATE cars SET status=%s WHERE id=%s (no row matched: nothing changes)
UpdateCarStatus(t, car_id, status) ==
    IF car_id \in DOMAIN t THEN [t EXCEPT ![car_id].status = status] ELSE t

\* Rows inserted so far, and whether the model lets table t take another.
RowsInserted ==
    (nextId.cars - 1) + (nextId.customers - 1) + (nextId.bookings - 1)
        + (nextId.services - 1)

Room(next, max) == next <= max /\ RowsInserted < MaxRows

\* A new row under the next AUTO_INCREMENT id.
Insert(t, id, row) == [i \in DOMAIN t \cup {id} |-> IF i = id THEN row ELSE t[i]]

-----------------------------------------------------------------------------
(* init_db: the tables are created if missing and the default admin is    *)
(* inserted unless a row with that username exists.                        *)
\* Inserts the default admin without looking for it first.
init_db_always_inserts(u) ==
    u \cup {[id |-> Cardinality(u) + 1,
              username |-> ADMIN_DEFAULT_USERNAME,
              password_hash |-> generate_password_hash(ADMIN_DEFAULT_PASSWORD)]}

init_db(u) ==
    IF \E r \in u : r.username = ADMIN_DEFAULT_USERNAME
    THEN u
    ELSE u \cup {[id |-> Cardinality(u) + 1,
                  username |-> ADMIN_DEFAULT_USERNAME,
                  password_hash |-> generate_password_hash(ADMIN_DEFAULT_PASSWORD)]}

Init ==
    /\ users = init_db({})
    /\ cars = <<>>
    /\ customers = {}
    /\ bookings = <<>>
    /\ services = <<>>
    /\ nextId = [cars |-> 1, customers |-> 1, bookings |-> 1, services |-> 1]
    /\ session = EmptySession
    /\ request = [route |-> "init_db", method |-> NoneVal, id |-> 0, form |-> NoForm]
    /\ response = Pending
    /\ before = NoCar
    /\ conn = "closed"
    /\ call = NoCall
    /\ inflight = Idle

-----------------------------------------------------------------------------
(* def admin_required(func): the wrapper every admin route runs through.   *)
LoggedIn == "user_id" \in DOMAIN session

Req(route, method, id, form) ==
    [route |-> route, method |-> method, id |-> id, form |-> form]

admin_required_open(route, method, id, form, func) ==
    /\ request' = Req(route, method, id, form)
    /\ UNCHANGED <<call, inflight>>
    /\ func

\* The wrapper reads neither the view arguments nor the form: they are
\* recorded only when the handler body runs.
admin_required(route, method, id, form, func) ==
    /\ UNCHANGED <<call, inflight>>
    /\ IF ~LoggedIn
       THEN /\ request' = Req(route, method, 0, NoForm)
            /\ response' = redirect("login", "Please login first.")
            /\ before' = NoCar
            /\ conn' = "none"
            /\ UNCHANGED <<tables, session>>
       ELSE /\ request' = Req(route, method, id, form)
            /\ func

-----------------------------------------------------------------------------
(* Authentication: /login and /logout *)
login_GET ==
    /\ request' = Req("login", "GET", 0, NoForm)
    /\ response' = render_template("login.html", NoneVal, {})
    /\ conn' = "none"
    /\ before' = NoCar
    /\ UNCHANGED <<tables, session, call, inflight>>

login_POST(u, p) ==
    LET found == {r \in users : r.username = u}
        invalid == /\ response' = render_template("login.html", "Invalid credentials.", {})
                   /\ UNCHANGED session
    IN  /\ request' = Req("login", "POST", 0, [username |-> u, password |-> p])
        /\ before' = NoCar
        /\ conn' = "closed"
        /\ UNCHANGED <<tables, call, inflight>>
        /\ IF found = {}
           THEN invalid
           ELSE LET user == CHOOSE r \in found : TRUE
                IN  IF p = NoneVal
                    THEN \* check_password_hash(hash, None) raises
                         /\ response' = InternalServerError("AttributeError")
                         /\ UNCHANGED session
                    ELSE IF check_password_hash(user.password_hash, p)
                    THEN /\ session' = [user_id |-> user.id, username |-> user.username]
                         /\ response' = redirect("dashboard", "Logged in successfully.")
                    ELSE invalid

logout ==
    /\ request' = Req("logout", "GET", 0, NoForm)
    /\ session' = EmptySession
    /\ response' = redirect("login", "Logged out.")
    /\ conn' = "none"
    /\ before' = NoCar
    /\ UNCHANGED <<tables, call, inflight>>

-----------------------------------------------------------------------------
(* Public summary page and admin dashboard *)
index ==
    /\ request' = Req("index", "GET", 0, NoForm)
    /\ response' = render_template("index.html", NoneVal,
                       Count("cars", DOMAIN cars) \cup Count("customers", customers)
                           \cup Count("bookings", DOMAIN bookings))
    /\ conn' = "closed"
    /\ before' = NoCar
    /\ UNCHANGED <<tables, session, call, inflight>>

\* ... ORDER BY b.created_at DESC LIMIT 6 (creation order is id order)
RecentLimit == 6

RecentBookings ==
    {b \in DOMAIN bookings :
        Cardinality({b2 \in DOMAIN bookings : b2 > b}) < RecentLimit}

dashboard ==
    admin_required("dashboard", "GET", 0, NoForm,
        /\ response' = render_template("dashboard.html", NoneVal,
               Count("cars", DOMAIN cars) \cup Count("customers", customers)
                   \cup Count("bookings", DOMAIN bookings)
                   \cup Count("services", DOMAIN services)
                   \cup Rows("bookings", RecentBookings))
        /\ conn' = "closed"
        /\ before' = NoCar
        /\ UNCHANGED <<tables, session>>)

-----------------------------------------------------------------------------
(* Cars CRUD *)
view_cars ==
    admin_required("view_cars", "GET", 0, NoForm,
        /\ response' = render_template("view_cars.html", NoneVal, Rows("cars", DOMAIN cars))
        /\ conn' = "closed"
        /\ before' = NoCar
        /\ UNCHANGED <<tables, session>>)

add_car_GET ==
    admin_required("add_car", "GET", 0, NoForm,
        /\ response' = render_template("add_car.html", NoneVal, {})
        /\ conn' = "none"
        /\ before' = NoCar
        /\ UNCHANGED <<tables, session>>)

\* request.form.get('price') or 0 ; request.form.get('status') or 'available'
PriceOrDefault(price) == IF price = <<>> THEN 0 ELSE price[1]
StatusOrDefault(status) == IF status = NoneVal THEN "available" ELSE status

add_car_POST(price, status) ==
    admin_required("add_car", "POST", 0, NoForm,
        /\ Room(nextId.cars, MaxCars)
        /\ cars' = Insert(cars, nextId.cars,
                          [price_per_day |-> PriceOrDefault(price),
                           status |-> StatusOrDefault(status)])
        /\ nextId' = [nextId EXCEPT !.cars = @ + 1]
        /\ response' = redirect("view_cars", "Car added.")
        /\ conn' = "closed"
        /\ before' = NoCar
        /\ UNCHANGED <<users, customers, bookings, services, session>>)

edit_car_GET(id) ==
    admin_required("edit_car", "GET", id, NoForm,
        /\ response' = IF id \notin DOMAIN cars
                       THEN redirect("view_cars", "Car not found.")
                       ELSE render_template("edit_car.html", NoneVal, Rows("cars", {id}))
        /\ conn' = "closed"
        /\ before' = NoCar
        /\ UNCHANGED <<tables, session>>)

\* Brings the total_cost of the car's bookings up to the new price.
edit_car_POST_recomputes(id, price, status) ==
    admin_required("edit_car", "POST", id, NoForm,
        /\ conn' = "closed"
        /\ cars' = IF id \in DOMAIN cars
                   THEN [cars EXCEPT ![id] = [price_per_day |-> PriceOrDefault(price),
                                              status |-> StatusOrDefault(status)]]
                   ELSE cars
        /\ bookings' = [b \in DOMAIN bookings |->
                           IF bookings[b].car_id = id
                           THEN [bookings[b] EXCEPT !.total_cost =
                                    calc_total_cost(PriceOrDefault(price),
                                                    bookings[b].start_date,
                                                    bookings[b].end_date)]
                           ELSE bookings[b]]
        /\ response' = redirect("view_cars", "Car updated.")
        /\ before' = NoCar
        /\ UNCHANGED <<users, customers, services, nextId, session>>)

edit_car_POST(id, price, status) ==
    admin_required("edit_car", "POST", id, NoForm,
        /\ cars' = IF id \in DOMAIN cars
                   THEN [cars EXCEPT ![id] = [price_per_day |-> PriceOrDefault(price),
                                              status |-> StatusOrDefault(status)]]
                   ELSE cars
        /\ response' = redirect("view_cars", "Car updated.")
        /\ conn' = "closed"
        /\ before' = NoCar
        /\ UNCHANGED <<users, customers, bookings, services, nextId, session>>)

\* DELETE FROM cars WHERE id=%s, with ON DELETE CASCADE on bookings and services
delete_car_no_cascade(id) ==
    admin_required("delete_car", "POST", id, NoForm,
        /\ cars' = Without(cars, {id})
        /\ response' = redirect("view_cars", "Car deleted.")
        /\ conn' = "closed"
        /\ before' = [CarBefore(id) EXCEPT !.rows = Cardinality(BookingsOfCar(id))
                                                     + Cardinality(ServicesOfCar(id))]
        /\ UNCHANGED <<users, customers, bookings, services, nextId, session>>)

delete_car(id) ==
    admin_required("delete_car", "POST", id, NoForm,
        /\ cars' = Without(cars, {id})
        /\ bookings' = Without(bookings, BookingsOfCar(id))
        /\ services' = Without(services, ServicesOfCar(id))
        /\ response' = redirect("view_cars", "Car deleted.")
        /\ conn' = "closed"
        /\ before' = [CarBefore(id) EXCEPT !.rows = Cardinality(BookingsOfCar(id))
                                                     + Cardinality(ServicesOfCar(id))]
        /\ UNCHANGED <<users, customers, nextId, session>>)

-----------------------------------------------------------------------------
(* Customers CRUD *)
view_customers ==
    admin_required("view_customers", "GET", 0, NoForm,
        /\ response' = render_template("view_customers.html", NoneVal,
                                       Rows("customers", customers))
        /\ conn' = "closed"
        /\ before' = NoCar
        /\ UNCHANGED <<tables, session>>)

add_customer_GET ==
    admin_required("add_customer", "GET", 0, NoForm,
        /\ response' = render_template("add_customer.html", NoneVal, {})
        /\ conn' = "none"
        /\ before' = NoCar
        /\ UNCHANGED <<tables, session>>)

add_customer_POST ==
    admin_required("add_customer", "POST", 0, NoForm,
        /\ Room(nextId.customers, MaxCustomers)
        /\ customers' = customers \cup {nextId.customers}
        /\ nextId' = [nextId EXCEPT !.customers = @ + 1]
        /\ response' = redirect("view_customers", "Customer added.")
        /\ conn' = "closed"
        /\ before' = NoCar
        /\ UNCHANGED <<users, cars, bookings, services, session>>)

edit_customer_GET(id) ==
    admin_required("edit_customer", "GET", id, NoForm,
        /\ response' = IF id \notin customers
                       THEN redirect("view_customers", "Customer not found.")
                       ELSE render_template("edit_customer.html", NoneVal,
                                            Rows("customers", {id}))
        /\ conn' = "closed"
        /\ before' = NoCar
        /\ UNCHANGED <<tables, session>>)

\* Only free-text columns are written: no modelled column changes.
edit_customer_POST(id) ==
    admin_required("edit_customer", "POST", id, NoForm,
        /\ response' = redirect("view_customers", "Customer updated.")
        /\ conn' = "closed"
        /\ before' = NoCar
        /\ UNCHANGED <<tables, session>>)

\* Resets the cars of the removed bookings, as delete_booking does for one.
delete_customer_resets_cars(id) ==
    admin_required("delete_customer", "POST", id, NoForm,
        /\ customers' = customers \ {id}
        /\ bookings' = Without(bookings, BookingsOfCustomer(id))
        /\ cars' = [c \in DOMAIN cars |->
                      IF \E b \in BookingsOfCustomer(id) : bookings[b].car_id = c
                      THEN [cars[c] EXCEPT !.status = "available"]
                      ELSE cars[c]]
        /\ response' = redirect("view_customers", "Customer deleted.")
        /\ conn' = "closed"
        /\ before' = [NoCar EXCEPT !.rows = Cardinality(BookingsOfCustomer(id))]
        /\ UNCHANGED <<users, services, nextId, session>>)

\* DELETE FROM customers WHERE id=%s, with ON DELETE CASCADE on bookings
delete_customer(id) ==
    admin_required("delete_customer", "POST", id, NoForm,
        /\ customers' = customers \ {id}
        /\ bookings' = Without(bookings, BookingsOfCustomer(id))
        /\ response' = redirect("view_customers", "Customer deleted.")
        /\ conn' = "closed"
        /\ before' = [NoCar EXCEPT !.rows = Cardinality(BookingsOfCustomer(id))]
        /\ UNCHANGED <<users, cars, services, nextId, session>>)

-----------------------------------------------------------------------------
(* Bookings CRUD *)
view_bookings ==
    admin_required("view_bookings", "GET", 0, NoForm,
        /\ response' = render_template("view_bookings.html", NoneVal,
                                       Rows("bookings", DOMAIN bookings))
        /\ conn' = "closed"
        /\ before' = NoCar
        /\ UNCHANGED <<tables, session>>)

\* SELECT * FROM cars WHERE status='available' OR status='maintenance'
BookableCars == {c \in DOMAIN cars : cars[c].status \in {"available", "maintenance"}}

add_booking_GET ==
    admin_required("add_booking", "GET", 0, NoForm,
        /\ response' = render_template("add_booking.html", NoneVal,
                           Rows("cars", BookableCars) \cup Rows("customers", customers))
        /\ conn' = "closed"
        /\ before' = NoCar
        /\ UNCHANGED <<tables, session>>)

\* price = float(car['price_per_day']) if car else 0
PriceOf(car_id) == IF car_id \in DOMAIN cars THEN cars[car_id].price_per_day ELSE 0

BookingRow(car_id, customer_id, start_date, end_date, status) ==
    [car_id |-> car_id, customer_id |-> customer_id,
     start_date |-> start_date, end_date |-> end_date,
     total_cost |-> calc_total_cost(PriceOf(car_id), start_date, end_date),
     status |-> status]

add_booking_POST_keep_car(car_id, customer_id, start_date, end_date) ==
    admin_required("add_booking", "POST", 0, [car_id |-> car_id],
        /\ before' = CarBefore(car_id)
        /\ UNCHANGED <<users, customers, services, session>>
        /\ IF ~WellFormed(start_date) \/ ~WellFormed(end_date)
              \/ ~BookingForeignKeysHold(car_id, customer_id)
           THEN /\ response' = InternalServerError(IF WellFormed(start_date) /\ WellFormed(end_date)
                                          THEN "IntegrityError" ELSE "ValueError")
                /\ conn' = "open"
                /\ UNCHANGED <<cars, bookings, nextId>>
           ELSE /\ Room(nextId.bookings, MaxBookings)
                /\ bookings' = Insert(bookings, nextId.bookings,
                                   BookingRow(car_id, customer_id, start_date, end_date, "active"))
                /\ nextId' = [nextId EXCEPT !.bookings = @ + 1]
                /\ cars' = IF cars[car_id].status = "available"
                           THEN UpdateCarStatus(cars, car_id, "rented") ELSE cars
                /\ response' = redirect("view_bookings", "Booking created.")
                /\ conn' = "closed")

\* Turns away a car that is not in the list the form offers.
add_booking_POST_checks_list(car_id, customer_id, start_date, end_date) ==
    admin_required("add_booking", "POST", 0, [car_id |-> car_id],
        /\ before' = CarBefore(car_id)
        /\ UNCHANGED <<users, customers, services, session>>
        /\ IF ~WellFormed(start_date) \/ ~WellFormed(end_date)
           THEN /\ response' = InternalServerError("ValueError")
                /\ conn' = "open"
                /\ UNCHANGED <<cars, bookings, nextId>>
           ELSE IF ~BookingForeignKeysHold(car_id, customer_id)
           THEN /\ response' = InternalServerError("IntegrityError")
                /\ conn' = "open"
                /\ UNCHANGED <<cars, bookings, nextId>>
           ELSE IF car_id \notin BookableCars
           THEN /\ response' = redirect("add_booking", "Car is not available.")
                /\ conn' = "closed"
                /\ UNCHANGED <<cars, bookings, nextId>>
           ELSE /\ Room(nextId.bookings, MaxBookings)
                /\ bookings' = Insert(bookings, nextId.bookings,
                                   BookingRow(car_id, customer_id, start_date, end_date, "active"))
                /\ nextId' = [nextId EXCEPT !.bookings = @ + 1]
                /\ cars' = UpdateCarStatus(cars, car_id, "rented")
                /\ response' = redirect("view_bookings", "Booking created.")
                /\ conn' = "closed")

add_booking_POST(car_id, customer_id, start_date, end_date) ==
    admin_required("add_booking", "POST", 0, [car_id |-> car_id],
        /\ before' = CarBefore(car_id)
        /\ UNCHANGED <<users, customers, services, session>>
        /\ IF ~WellFormed(start_date) \/ ~WellFormed(end_date)
           THEN \* calc_total_cost: strptime raises ValueError
                /\ response' = InternalServerError("ValueError")
                /\ conn' = "open"
                /\ UNCHANGED <<cars, bookings, nextId>>
           ELSE IF ~BookingForeignKeysHold(car_id, customer_id)
           THEN \* INSERT INTO bookings: the foreign key rejects the row
                /\ response' = InternalServerError("IntegrityError")
                /\ conn' = "open"
                /\ UNCHANGED <<cars, bookings, nextId>>
           ELSE /\ Room(nextId.bookings, MaxBookings)
                /\ bookings' = Insert(bookings, nextId.bookings,
                                   BookingRow(car_id, customer_id, start_date, end_date, "active"))
                /\ nextId' = [nextId EXCEPT !.bookings = @ + 1]
                /\ cars' = UpdateCarStatus(cars, car_id, "rented")
                /\ response' = redirect("view_bookings", "Booking created.")
                /\ conn' = "closed")

edit_booking_GET(id) ==
    admin_required("edit_booking", "GET", id, NoForm,
        /\ response' = IF id \notin DOMAIN bookings
                       THEN redirect("view_bookings", "Booking not found.")
                       ELSE render_template("edit_booking.html", NoneVal,
                                Rows("bookings", {id}) \cup Rows("cars", DOMAIN cars)
                                    \cup Rows("customers", customers))
        /\ conn' = "closed"
        /\ before' = NoCar
        /\ UNCHANGED <<tables, session>>)

\* Frees the car only when no other active booking references it.
edit_booking_POST_checks_others(id, car_id, customer_id, start_date, end_date, status) ==
    admin_required("edit_booking", "POST", id, [car_id |-> car_id],
        /\ before' = BookingBefore(car_id, id)
        /\ UNCHANGED <<users, customers, services, nextId, session>>
        /\ IF ~WellFormed(start_date) \/ ~WellFormed(end_date)
              \/ (id \in DOMAIN bookings /\ ~BookingForeignKeysHold(car_id, customer_id))
           THEN /\ response' = InternalServerError(IF WellFormed(start_date) /\ WellFormed(end_date)
                                          THEN "IntegrityError" ELSE "ValueError")
                /\ conn' = "open"
                /\ UNCHANGED <<cars, bookings>>
           ELSE /\ bookings' = IF id \in DOMAIN bookings
                               THEN [bookings EXCEPT ![id] =
                                        BookingRow(car_id, customer_id, start_date, end_date, status)]
                               ELSE bookings
                /\ cars' = IF /\ status \in {"completed", "cancelled"}
                              /\ \A b \in BookingsOfCar(car_id) \ {id} :
                                    bookings[b].status # "active"
                           THEN UpdateCarStatus(cars, car_id, "available")
                           ELSE cars
                /\ response' = redirect("view_bookings", "Booking updated.")
                /\ conn' = "closed")

\* Keeps the stored total_cost of the row it updates.
edit_booking_POST_keep_total(id, car_id, customer_id, start_date, end_date, status) ==
    admin_required("edit_booking", "POST", id, [car_id |-> car_id],
        /\ before' = BookingBefore(car_id, id)
        /\ UNCHANGED <<users, customers, services, nextId, session>>
        /\ IF ~WellFormed(start_date) \/ ~WellFormed(end_date)
              \/ (id \in DOMAIN bookings /\ ~BookingForeignKeysHold(car_id, customer_id))
           THEN /\ response' = InternalServerError(IF WellFormed(start_date) /\ WellFormed(end_date)
                                          THEN "IntegrityError" ELSE "ValueError")
                /\ conn' = "open"
                /\ UNCHANGED <<cars, bookings>>
           ELSE /\ bookings' = IF id \in DOMAIN bookings
                               THEN [bookings EXCEPT ![id] =
                                        [BookingRow(car_id, customer_id, start_date, end_date, status)
                                            EXCEPT !.total_cost = bookings[id].total_cost]]
                               ELSE bookings
                /\ cars' = IF status \in {"completed", "cancelled"}
                           THEN UpdateCarStatus(cars, car_id, "available")
                           ELSE cars
                /\ response' = redirect("view_bookings", "Booking updated.")
                /\ conn' = "closed")

\* Keeps the status of a booking that is already completed or cancelled.
edit_booking_POST_keeps_closed(id, car_id, customer_id, start_date, end_date, status) ==
    admin_required("edit_booking", "POST", id, [car_id |-> car_id],
        /\ before' = BookingBefore(car_id, id)
        /\ UNCHANGED <<users, customers, services, nextId, session>>
        /\ IF ~WellFormed(start_date) \/ ~WellFormed(end_date)
              \/ (id \in DOMAIN bookings /\ ~BookingForeignKeysHold(car_id, customer_id))
           THEN /\ response' = InternalServerError(IF WellFormed(start_date) /\ WellFormed(end_date)
                                          THEN "IntegrityError" ELSE "ValueError")
                /\ conn' = "open"
                /\ UNCHANGED <<cars, bookings>>
           ELSE /\ bookings' = IF id \in DOMAIN bookings
                               THEN [bookings EXCEPT ![id] =
                                        BookingRow(car_id, customer_id, start_date, end_date,
                                            IF bookings[id].status \in {"completed", "cancelled"}
                                            THEN bookings[id].status ELSE status)]
                               ELSE bookings
                /\ cars' = IF status \in {"completed", "cancelled"}
                           THEN UpdateCarStatus(cars, car_id, "available")
                           ELSE cars
                /\ response' = redirect("view_bookings", "Booking updated.")
                /\ conn' = "closed")

\* Sets the named car to rented when the submitted status keeps the booking
\* open, as add_booking does.
edit_booking_POST_rents_car(id, car_id, customer_id, start_date, end_date, status) ==
    admin_required("edit_booking", "POST", id, [car_id |-> car_id],
        /\ before' = BookingBefore(car_id, id)
        /\ UNCHANGED <<users, customers, services, nextId, session>>
        /\ IF ~WellFormed(start_date) \/ ~WellFormed(end_date)
           THEN /\ response' = InternalServerError("ValueError")
                /\ conn' = "open"
                /\ UNCHANGED <<cars, bookings>>
           ELSE IF id \in DOMAIN bookings /\ ~BookingForeignKeysHold(car_id, customer_id)
           THEN /\ response' = InternalServerError("IntegrityError")
                /\ conn' = "open"
                /\ UNCHANGED <<cars, bookings>>
           ELSE /\ bookings' = IF id \in DOMAIN bookings
                               THEN [bookings EXCEPT ![id] =
                                        BookingRow(car_id, customer_id, start_date, end_date, status)]
                               ELSE bookings
                /\ cars' = IF status \in {"completed", "cancelled"}
                           THEN UpdateCarStatus(cars, car_id, "available")
                           ELSE UpdateCarStatus(cars, car_id, "rented")
                /\ response' = redirect("view_bookings", "Booking updated.")
                /\ conn' = "closed")

edit_booking_POST(id, car_id, customer_id, start_date, end_date, status) ==
    admin_required("edit_booking", "POST", id, [car_id |-> car_id],
        /\ before' = BookingBefore(car_id, id)
        /\ UNCHANGED <<users, customers, services, nextId, session>>
        /\ IF ~WellFormed(start_date) \/ ~WellFormed(end_date)
           THEN \* calc_total_cost: strptime raises ValueError
                /\ response' = InternalServerError("ValueError")
                /\ conn' = "open"
                /\ UNCHANGED <<cars, bookings>>
           ELSE IF id \in DOMAIN bookings /\ ~BookingForeignKeysHold(car_id, customer_id)
           THEN \* UPDATE bookings: the foreign key rejects the matched row
                /\ response' = InternalServerError("IntegrityError")
                /\ conn' = "open"
                /\ UNCHANGED <<cars, bookings>>
           ELSE /\ bookings' = IF id \in DOMAIN bookings
                               THEN [bookings EXCEPT ![id] =
                                        BookingRow(car_id, customer_id, start_date, end_date, status)]
                               ELSE bookings
                /\ cars' = IF status \in {"completed", "cancelled"}
                           THEN UpdateCarStatus(cars, car_id, "available")
                           ELSE cars
                /\ response' = redirect("view_bookings", "Booking updated.")
                /\ conn' = "closed")

\* Reads row['car_id'] without testing the row: no row raises TypeError.
delete_booking_no_row_test(id) ==
    admin_required("delete_booking", "POST", id, NoForm,
        /\ UNCHANGED <<users, customers, services, nextId, session>>
        /\ IF id \notin DOMAIN bookings
           THEN /\ before' = NoCar
                /\ response' = InternalServerError("TypeError")
                /\ conn' = "open"
                /\ UNCHANGED <<cars, bookings>>
           ELSE /\ before' = BookingBefore(bookings[id].car_id, id)
                /\ cars' = UpdateCarStatus(cars, bookings[id].car_id, "available")
                /\ bookings' = Without(bookings, {id})
                /\ response' = redirect("view_bookings", "Booking deleted.")
                /\ conn' = "closed")

delete_booking(id) ==
    admin_required("delete_booking", "POST", id, NoForm,
        /\ conn' = "closed"
        /\ before' = IF id \in DOMAIN bookings
                      THEN BookingBefore(bookings[id].car_id, id) ELSE NoCar
        /\ cars' = IF id \in DOMAIN bookings
                   THEN UpdateCarStatus(cars, bookings[id].car_id, "available")
                   ELSE cars
        /\ bookings' = Without(bookings, {id})
        /\ response' = redirect("view_bookings", "Booking deleted.")
        /\ UNCHANGED <<users, customers, services, nextId, session>>)

-----------------------------------------------------------------------------
(* Services CRUD *)
view_services ==
    admin_required("view_services", "GET", 0, NoForm,
        /\ response' = render_template("view_services.html", NoneVal,
                                       Rows("services", DOMAIN services))
        /\ conn' = "closed"
        /\ before' = NoCar
        /\ UNCHANGED <<tables, session>>)

add_service_GET ==
    admin_required("add_service", "GET", 0, NoForm,
        /\ response' = render_template("add_service.html", NoneVal, Rows("cars", DOMAIN cars))
        /\ conn' = "closed"
        /\ before' = NoCar
        /\ UNCHANGED <<tables, session>>)

\* Leaves a rented car rented.
add_service_POST_keep_rented(car_id) ==
    admin_required("add_service", "POST", 0, [car_id |-> car_id],
        /\ before' = CarBefore(car_id)
        /\ UNCHANGED <<users, customers, bookings, session>>
        /\ IF ~ServiceForeignKeyHolds(car_id)
           THEN /\ response' = InternalServerError("IntegrityError")
                /\ conn' = "open"
                /\ UNCHANGED <<cars, services, nextId>>
           ELSE /\ Room(nextId.services, MaxServices)
                /\ services' = Insert(services, nextId.services, [car_id |-> car_id])
                /\ nextId' = [nextId EXCEPT !.services = @ + 1]
                /\ cars' = IF cars[car_id].status = "rented"
                           THEN cars ELSE UpdateCarStatus(cars, car_id, "maintenance")
                /\ response' = redirect("view_services", "Service record added.")
                /\ conn' = "closed")

add_service_POST(car_id) ==
    admin_required("add_service", "POST", 0, [car_id |-> car_id],
        /\ before' = CarBefore(car_id)
        /\ UNCHANGED <<users, customers, bookings, session>>
        /\ IF ~ServiceForeignKeyHolds(car_id)
           THEN \* INSERT INTO services: the foreign key rejects the row
                /\ response' = InternalServerError("IntegrityError")
                /\ conn' = "open"
                /\ UNCHANGED <<cars, services, nextId>>
           ELSE /\ Room(nextId.services, MaxServices)
                /\ services' = Insert(services, nextId.services, [car_id |-> car_id])
                /\ nextId' = [nextId EXCEPT !.services = @ + 1]
                /\ cars' = UpdateCarStatus(cars, car_id, "maintenance")
                /\ response' = redirect("view_services", "Service record added.")
                /\ conn' = "closed")

edit_service_GET(id) ==
    admin_required("edit_service", "GET", id, NoForm,
        /\ response' = IF id \notin DOMAIN services
                       THEN redirect("view_services", "Service not found.")
                       ELSE render_template("edit_service.html", NoneVal,
                                Rows("services", {id}) \cup Rows("cars", DOMAIN cars))
        /\ conn' = "closed"
        /\ before' = NoCar
        /\ UNCHANGED <<tables, session>>)

\* Puts the car it assigns the service to into maintenance, as add_service does.
edit_service_POST_sets_maintenance(id, car_id) ==
    admin_required("edit_service", "POST", id, [car_id |-> car_id],
        /\ before' = CarBefore(car_id)
        /\ UNCHANGED <<users, customers, bookings, nextId, session>>
        /\ IF id \in DOMAIN services /\ ~ServiceForeignKeyHolds(car_id)
           THEN /\ response' = InternalServerError("IntegrityError")
                /\ conn' = "open"
                /\ UNCHANGED <<cars, services>>
           ELSE /\ services' = IF id \in DOMAIN services
                               THEN [services EXCEPT ![id] = [car_id |-> car_id]]
                               ELSE services
                /\ cars' = IF id \in DOMAIN services
                           THEN UpdateCarStatus(cars, car_id, "maintenance") ELSE cars
                /\ response' = redirect("view_services", "Service record updated.")
                /\ conn' = "closed")

edit_service_POST(id, car_id) ==
    admin_required("edit_service", "POST", id, [car_id |-> car_id],
        /\ before' = CarBefore(car_id)
        /\ UNCHANGED <<users, cars, customers, bookings, nextId, session>>
        /\ IF id \in DOMAIN services /\ ~ServiceForeignKeyHolds(car_id)
           THEN \* UPDATE services: the foreign key rejects the matched row
                /\ response' = InternalServerError("IntegrityError")
                /\ conn' = "open"
                /\ UNCHANGED services
           ELSE /\ services' = IF id \in DOMAIN services
                               THEN [services EXCEPT ![id] = [car_id |-> car_id]]
                               ELSE services
                /\ response' = redirect("view_services", "Service record updated.")
                /\ conn' = "closed")

delete_service(id) ==
    admin_required("delete_service", "POST", id, NoForm,
        /\ conn' = "closed"
        /\ before' = NoCar
        /\ services' = Without(services, {id})
        /\ response' = redirect("view_services", "Service record deleted.")
        /\ UNCHANGED <<users, cars, customers, bookings, nextId, session>>)

-----------------------------------------------------------------------------
(* A start of the process: the module runs init_db() when it is loaded.    *)
(* CREATE DATABASE / CREATE TABLE IF NOT EXISTS leave existing tables as   *)
(* they are; the session lives in the client's signed cookie and survives. *)
Startup ==
    /\ users' = init_db(users)
    /\ request' = Req("init_db", NoneVal, 0, NoForm)
    /\ response' = Pending
    /\ before' = NoCar
    /\ conn' = "closed"
    /\ UNCHANGED <<cars, customers, bookings, services, nextId, session, call, inflight>>

-----------------------------------------------------------------------------
\* Without a session admin_required answers before any view argument or form
\* field is read, so one representative submission stands for all of them.
Sent(inputs) == IF LoggedIn THEN inputs ELSE {CHOOSE x \in inputs : TRUE}

\* The requests that can change the tables or the session, and restarts.
NextPost ==
    \/ \E u \in UsernameInputs, p \in PasswordInputs : login_POST(u, p)
    \/ logout
    \/ \E price \in Sent(PriceInputs), status \in Sent(CarStatusInputs) : add_car_POST(price, status)
    \/ \E id \in Sent(CarIds), price \in Sent(PriceInputs), status \in Sent(CarStatusInputs) :
          edit_car_POST(id, price, status)
    \/ \E id \in Sent(CarIds) : delete_car(id)
    \/ add_customer_POST
    \/ \E id \in Sent(CustomerIds) : edit_customer_POST(id)
    \/ \E id \in Sent(CustomerIds) : delete_customer(id)
    \/ \E car_id \in Sent(CarIds), customer_id \in Sent(CustomerIds),
          range \in Sent(DateRangeInputs) :
          add_booking_POST(car_id, customer_id, range[1], range[2])
    \/ \E id \in Sent(BookingIds), car_id \in Sent(CarIds), customer_id \in Sent(CustomerIds),
          range \in Sent(DateRangeInputs), status \in Sent(BookingStatusInputs) :
          edit_booking_POST(id, car_id, customer_id, range[1], range[2], status)
    \/ \E id \in Sent(BookingIds) : delete_booking(id)
    \/ \E car_id \in Sent(CarIds) : add_service_POST(car_id)
    \/ \E id \in Sent(ServiceIds), car_id \in Sent(CarIds) : edit_service_POST(id, car_id)
    \/ \E id \in Sent(ServiceIds) : delete_service(id)
    \/ Startup

\* The requests that only read.
NextGet ==
    \/ login_GET
    \/ index
    \/ dashboard
    \/ view_cars
    \/ add_car_GET
    \/ \E id \in Sent(CarIds) : edit_car_GET(id)
    \/ view_customers
    \/ add_customer_GET
    \/ \E id \in Sent(CustomerIds) : edit_customer_GET(id)
    \/ view_bookings
    \/ add_booking_GET
    \/ \E id \in Sent(BookingIds) : edit_booking_GET(id)
    \/ view_services
    \/ add_service_GET
    \/ \E id \in Sent(ServiceIds) : edit_service_GET(id)

\* The answer to the request last handled has been sent: the server takes
\* the next request.
Awaiting == response.status = NoneVal

Respond ==
    /\ ~Awaiting
    /\ request' = Req(NoneVal, NoneVal, 0, NoForm)
    /\ response' = Pending
    /\ before' = NoCar
    /\ UNCHANGED <<users, cars, customers, bookings, services, nextId, session, conn,
                   call, inflight>>

\* One request at a time, each answered before the next is taken: the
\* requests of NextPost and NextGet, and the sending of the answer.
Next ==
    \/ Awaiting /\ \E u \in UsernameInputs, p \in PasswordInputs : login_POST(u, p)
    \/ Awaiting /\ logout
    \/ Awaiting /\ \E price \in Sent(PriceInputs), status \in Sent(CarStatusInputs) : add_car_POST(price, status)
    \/ Awaiting /\ \E id \in Sent(CarIds), price \in Sent(PriceInputs), status \in Sent(CarStatusInputs) :
            edit_car_POST(id, price, status)
    \/ Awaiting /\ \E id \in Sent(CarIds) : delete_car(id)
    \/ Awaiting /\ add_customer_POST
    \/ Awaiting /\ \E id \in Sent(CustomerIds) : edit_customer_POST(id)
    \/ Awaiting /\ \E id \in Sent(CustomerIds) : delete_customer(id)
    \/ Awaiting /\ \E car_id \in Sent(CarIds), customer_id \in Sent(CustomerIds),
            range \in Sent(DateRangeInputs) :
            add_booking_POST(car_id, customer_id, range[1], range[2])
    \/ Awaiting /\ \E id \in Sent(BookingIds), car_id \in Sent(CarIds), customer_id \in Sent(CustomerIds),
            range \in Sent(DateRangeInputs), status \in Sent(BookingStatusInputs) :
            edit_booking_POST(id, car_id, customer_id, range[1], range[2], status)
    \/ Awaiting /\ \E id \in Sent(BookingIds) : delete_booking(id)
    \/ Awaiting /\ \E car_id \in Sent(CarIds) : add_service_POST(car_id)
    \/ Awaiting /\ \E id \in Sent(ServiceIds), car_id \in Sent(CarIds) : edit_service_POST(id, car_id)
    \/ Awaiting /\ \E id \in Sent(ServiceIds) : delete_service(id)
    \/ Awaiting /\ Startup
    \/ Awaiting /\ login_GET
    \/ Awaiting /\ index
    \/ Awaiting /\ dashboard
    \/ Awaiting /\ view_cars
    \/ Awaiting /\ add_car_GET
    \/ Awaiting /\ \E id \in Sent(CarIds) : edit_car_GET(id)
    \/ Awaiting /\ view_customers
    \/ Awaiting /\ add_customer_GET
    \/ Awaiting /\ \E id \in Sent(CustomerIds) : edit_customer_GET(id)
    \/ Awaiting /\ view_bookings
    \/ Awaiting /\ add_booking_GET
    \/ Awaiting /\ \E id \in Sent(BookingIds) : edit_booking_GET(id)
    \/ Awaiting /\ view_services
    \/ Awaiting /\ add_service_GET
    \/ Awaiting /\ \E id \in Sent(ServiceIds) : edit_service_GET(id)
    \/ Respond

\* Every route.
Spec == Init /\ [][Next]_vars

\* The state-changing requests alone: the same tables and sessions are reached.
SpecPost == Init /\ [][NextPost]_vars

-----------------------------------------------------------------------------
(* Submissions the forms do not offer but the handlers accept: the form    *)
(* fields reach the INSERT and UPDATE statements as they were sent.        *)
AnyPriceInputs == {<<50>>, <<-50>>}
AnyCarStatusInputs == {NoneVal, "sold"}
AnyBookingStatusInputs == {"active", "pending", NoneVal}

NextForms ==
    \/ login_POST(ADMIN_DEFAULT_USERNAME, ADMIN_DEFAULT_PASSWORD)
    \/ \E price \in Sent(AnyPriceInputs), status \in Sent(AnyCarStatusInputs) :
          add_car_POST(price, status)
    \/ \E id \in Sent(CarIds), price \in Sent(AnyPriceInputs),
          status \in Sent(AnyCarStatusInputs) :
          edit_car_POST(id, price, status)
    \/ add_customer_POST
    \/ \E car_id \in Sent(CarIds), customer_id \in Sent(CustomerIds),
          range \in Sent(DateRangeInputs) :
          add_booking_POST(car_id, customer_id, range[1], range[2])
    \/ \E id \in Sent(BookingIds), car_id \in Sent(CarIds), customer_id \in Sent(CustomerIds),
          range \in Sent(DateRangeInputs), status \in Sent(AnyBookingStatusInputs) :
          edit_booking_POST(id, car_id, customer_id, range[1], range[2], status)

\* The car and booking forms with any value in their price and status fields.
SpecForms == Init /\ [][NextForms]_vars

-----------------------------------------------------------------------------
(* calc_total_cost on its own: every argument triple of a small grid, and  *)
(* one step that calls the function.                                       *)
CalcPrices == {0, 50, 125}
CalcDates ==
    {<<2023, 12, 31>>, <<2024, 1, 1>>, <<2024, 1, 3>>, <<2024, 1, 5>>,
     <<2024, 2, 28>>, <<2024, 3, 1>>, <<2023, 2, 29>>}

InitCalc ==
    /\ users = init_db({})
    /\ cars = <<>>
    /\ customers = {}
    /\ bookings = <<>>
    /\ services = <<>>
    /\ nextId = [cars |-> 1, customers |-> 1, bookings |-> 1, services |-> 1]
    /\ session = EmptySession
    /\ request = [route |-> "init_db", method |-> NoneVal, id |-> 0, form |-> NoForm]
    /\ response = Pending
    /\ before = NoCar
    /\ conn = "closed"
    /\ inflight = Idle
    /\ \E p \in CalcPrices, sd \in CalcDates, ed \in CalcDates :
          call = [car_price_per_day |-> p, start_date |-> sd, end_date |-> ed,
                  outcome |-> "pending", value |-> 0]

CallCalcTotalCost ==
    /\ call.outcome = "pending"
    /\ call' = IF WellFormed(call.start_date) /\ WellFormed(call.end_date)
               THEN [call EXCEPT !.outcome = "returned",
                                 !.value = calc_total_cost(call.car_price_per_day,
                                                           call.start_date, call.end_date)]
               ELSE [call EXCEPT !.outcome = "ValueError"]
    /\ UNCHANGED <<tables, session, request, response, before, conn, inflight>>

SpecCalc == InitCalc /\ [][CallCalcTotalCost]_vars

-----------------------------------------------------------------------------
(* delete_booking statement by statement.  The connection is in autocommit *)
(* mode (get_connection), so each execute() is committed on its own.  The  *)
(* server handles one request at a time here: the other handlers run only  *)
(* while no request is in flight.                                          *)

\* cur.execute("SELECT car_id FROM bookings WHERE id=%s"); row = cur.fetchone()
delete_booking_select(id) ==
    /\ inflight = Idle
    /\ UNCHANGED <<tables, session, call>>
    /\ IF ~LoggedIn
       THEN \* admin_required
            /\ request' = Req("delete_booking", "POST", 0, NoForm)
            /\ response' = redirect("login", "Please login first.")
            /\ before' = NoCar
            /\ conn' = "none"
            /\ UNCHANGED inflight
       ELSE /\ request' = Req("delete_booking", "POST", id, NoForm)
            /\ response' = Pending
            /\ conn' = "open"
            /\ before' = IF id \in DOMAIN bookings
                         THEN BookingBefore(bookings[id].car_id, id) ELSE NoCar
            /\ inflight' = [route |-> "delete_booking", id |-> id,
                            car_id |-> IF id \in DOMAIN bookings
                                       THEN bookings[id].car_id ELSE 0,
                            at |-> IF id \in DOMAIN bookings THEN "update" ELSE "delete"]

\* Resets the car only when no other active booking references it.
delete_booking_update_checks_others ==
    /\ inflight.route = "delete_booking"
    /\ inflight.at = "update"
    /\ cars' = IF \A b \in BookingsOfCar(inflight.car_id) \ {inflight.id} :
                     bookings[b].status # "active"
               THEN UpdateCarStatus(cars, inflight.car_id, "available")
               ELSE cars
    /\ inflight' = [inflight EXCEPT !.at = "delete"]
    /\ UNCHANGED <<users, customers, bookings, services, nextId, session,
                   request, response, before, conn, call>>

\* if row: cur.execute("UPDATE cars SET status=%s WHERE id=%s", ('available', car_id))
delete_booking_update ==
    /\ inflight.route = "delete_booking"
    /\ inflight.at = "update"
    /\ cars' = UpdateCarStatus(cars, inflight.car_id, "available")
    /\ inflight' = [inflight EXCEPT !.at = "delete"]
    /\ UNCHANGED <<users, customers, bookings, services, nextId, session,
                   request, response, before, conn, call>>

\* cur.execute("DELETE FROM bookings WHERE id=%s"); flash; redirect
delete_booking_delete ==
    /\ inflight.route = "delete_booking"
    /\ inflight.at = "delete"
    /\ bookings' = Without(bookings, {inflight.id})
    /\ response' = redirect("view_bookings", "Booking deleted.")
    /\ conn' = "closed"
    /\ inflight' = Idle
    /\ UNCHANGED <<users, cars, customers, services, nextId, session,
                   request, before, call>>

\* A handler that runs while no request is in flight.
WhenIdle(handler) == inflight = Idle /\ handler

NextStmt ==
    \/ \E p \in PasswordInputs : WhenIdle(login_POST(ADMIN_DEFAULT_USERNAME, p))
    \/ \E price \in PriceInputs, status \in CarStatusInputs :
          WhenIdle(add_car_POST(price, status))
    \/ \E id \in CarIds, price \in PriceInputs, status \in CarStatusInputs :
          WhenIdle(edit_car_POST(id, price, status))
    \/ WhenIdle(add_customer_POST)
    \/ \E car_id \in CarIds, customer_id \in CustomerIds, range \in DateRangeInputs :
          WhenIdle(add_booking_POST(car_id, customer_id, range[1], range[2]))
    \/ \E id \in BookingIds, car_id \in CarIds, customer_id \in CustomerIds,
          range \in DateRangeInputs, status \in BookingStatusInputs :
          WhenIdle(edit_booking_POST(id, car_id, customer_id, range[1], range[2], status))
    \/ \E id \in BookingIds : delete_booking_select(id)
    \/ delete_booking_update
    \/ delete_booking_delete

\* The booking handlers with delete_booking taken one statement at a time.
SpecStmt == Init /\ [][NextStmt]_vars

-----------------------------------------------------------------------------
(* add_booking statement by statement, and a request that stops part way.  *)
(* Every execute() is committed when it returns (autocommit), so what the  *)
(* statements already run have written stays in the tables.                *)

\* The two SELECTs of the lists, the SELECT of the price and calc_total_cost
add_booking_select(car_id, customer_id, start_date, end_date) ==
    /\ inflight = Idle
    /\ UNCHANGED <<tables, session, call>>
    /\ IF ~LoggedIn
       THEN \* admin_required
            /\ request' = Req("add_booking", "POST", 0, NoForm)
            /\ response' = redirect("login", "Please login first.")
            /\ before' = NoCar
            /\ conn' = "none"
            /\ UNCHANGED inflight
       ELSE /\ request' = Req("add_booking", "POST", 0, [car_id |-> car_id])
            /\ before' = CarBefore(car_id)
            /\ conn' = "open"
            /\ IF ~WellFormed(start_date) \/ ~WellFormed(end_date)
               THEN \* calc_total_cost: strptime raises ValueError
                    /\ response' = InternalServerError("ValueError")
                    /\ UNCHANGED inflight
               ELSE /\ response' = Pending
                    /\ inflight' = [route |-> "add_booking", id |-> 0, car_id |-> car_id,
                                    at |-> "insert",
                                    row |-> BookingRow(car_id, customer_id, start_date,
                                                       end_date, "active")]

\* The INSERT and the UPDATE of the car committed together.
add_booking_insert_with_update ==
    /\ inflight.route = "add_booking"
    /\ inflight.at = "insert"
    /\ UNCHANGED <<users, customers, services, session, request, before, conn, call>>
    /\ IF ~BookingForeignKeysHold(inflight.row.car_id, inflight.row.customer_id)
       THEN /\ response' = InternalServerError("IntegrityError")
            /\ inflight' = Idle
            /\ UNCHANGED <<cars, bookings, nextId>>
       ELSE /\ Room(nextId.bookings, MaxBookings)
            /\ bookings' = Insert(bookings, nextId.bookings, inflight.row)
            /\ nextId' = [nextId EXCEPT !.bookings = @ + 1]
            /\ cars' = UpdateCarStatus(cars, inflight.car_id, "rented")
            /\ inflight' = [inflight EXCEPT !.at = "update", !.id = nextId.bookings]
            /\ UNCHANGED response

\* cur.execute("INSERT INTO bookings ... VALUES (...)", (..., total, 'active'))
add_booking_insert ==
    /\ inflight.route = "add_booking"
    /\ inflight.at = "insert"
    /\ UNCHANGED <<users, cars, customers, services, session, request, before, conn, call>>
    /\ IF ~BookingForeignKeysHold(inflight.row.car_id, inflight.row.customer_id)
       THEN \* the foreign key rejects the row
            /\ response' = InternalServerError("IntegrityError")
            /\ inflight' = Idle
            /\ UNCHANGED <<bookings, nextId>>
       ELSE /\ Room(nextId.bookings, MaxBookings)
            /\ bookings' = Insert(bookings, nextId.bookings, inflight.row)
            /\ nextId' = [nextId EXCEPT !.bookings = @ + 1]
            /\ inflight' = [inflight EXCEPT !.at = "update", !.id = nextId.bookings]
            /\ UNCHANGED response

\* cur.execute("UPDATE cars SET status=%s WHERE id=%s", ('rented', car_id));
\* flash; close; redirect
add_booking_update ==
    /\ inflight.route = "add_booking"
    /\ inflight.at = "update"
    /\ cars' = UpdateCarStatus(cars, inflight.car_id, "rented")
    /\ response' = redirect("view_bookings", "Booking created.")
    /\ conn' = "closed"
    /\ inflight' = Idle
    /\ UNCHANGED <<users, customers, bookings, services, nextId, session,
                   request, before, call>>

\* The request in flight goes no further: the process is killed (no response;
\* its sockets are closed with it), or the statement it was about to run
\* fails in the driver (OperationalError, answered with 500).  The response
\* records in target the statement that was not run.
Stop ==
    /\ inflight # Idle
    /\ inflight' = Idle
    /\ \/ /\ response' = [Pending EXCEPT !.status = "stopped", !.target = inflight.at]
          /\ conn' = "closed"
       \/ /\ response' = [InternalServerError("OperationalError")
                              EXCEPT !.target = inflight.at]
          /\ conn' = "open"
    /\ UNCHANGED <<tables, session, request, before, call>>

NextCrash ==
    \/ \E p \in PasswordInputs : WhenIdle(login_POST(ADMIN_DEFAULT_USERNAME, p))
    \/ \E price \in PriceInputs, status \in CarStatusInputs :
          WhenIdle(add_car_POST(price, status))
    \/ \E id \in CarIds, price \in PriceInputs, status \in CarStatusInputs :
          WhenIdle(edit_car_POST(id, price, status))
    \/ WhenIdle(add_customer_POST)
    \/ \E car_id \in CarIds, customer_id \in CustomerIds, range \in DateRangeInputs :
          add_booking_select(car_id, customer_id, range[1], range[2])
    \/ add_booking_insert
    \/ add_booking_update
    \/ \E id \in BookingIds : delete_booking_select(id)
    \/ delete_booking_update
    \/ delete_booking_delete
    \/ Stop
    \/ WhenIdle(Startup)

\* add_booking and delete_booking one statement at a time, with requests that
\* stop between two statements and restarts of the process.
SpecCrash == Init /\ [][NextCrash]_vars

-----------------------------------------------------------------------------
(* Properties *)

\* The handler body of route r ran for the last request and ended in its redirect.
Done(route, method, target) ==
    /\ request.route = route
    /\ request.method = method
    /\ response.status = "redirect"
    /\ response.target = target

Max(a, b) == IF a >= b THEN a ELSE b

\* The days of the calendar from sd to ed, both included, counted one by one.
CalendarDays == {dt \in (2023..2024) \X (1..12) \X (1..31) : WellFormed(dt)}

Earlier(a, b) ==
    \/ a[1] < b[1]
    \/ a[1] = b[1] /\ a[2] < b[2]
    \/ a[1] = b[1] /\ a[2] = b[2] /\ a[3] < b[3]

InclusiveDays(sd, ed) ==
    Cardinality({dt \in CalendarDays : ~Earlier(dt, sd) /\ ~Earlier(ed, dt)})

\* C1: for well-formed dates calc_total_cost returns, never raises, and its
\* value is price_per_day times the inclusive day count, with one day charged
\* when the range is inverted; price 50 over 2024-01-01..2024-01-03 costs 150
\* and over a single day 50.
C1_CalcTotalCost ==
    (/\ call.outcome # "pending"
     /\ WellFormed(call.start_date)
     /\ WellFormed(call.end_date))
    => /\ call.outcome = "returned"
       /\ call.value = call.car_price_per_day
                         * Max(1, InclusiveDays(call.start_date, call.end_date))
       /\ Earlier(call.end_date, call.start_date) => call.value = call.car_price_per_day
       /\ (/\ call.car_price_per_day = 50
           /\ call.start_date = <<2024, 1, 1>>
           /\ call.end_date = <<2024, 1, 3>>) => call.value = 150
       /\ (call.car_price_per_day = 50 /\ call.start_date = call.end_date)
             => call.value = 50

\* An inverted range across the leap day was charged as one day.
C1_Witness ==
    /\ call.outcome = "returned"
    /\ call.car_price_per_day = 125
    /\ call.start_date = <<2024, 3, 1>>
    /\ call.end_date = <<2024, 2, 28>>
    /\ call.value = 125

\* C2: after a successful add_booking POST the newest booking row is active
\* and names the submitted car, and that car is rented whatever it was before.
C2_AddBookingRentsCar ==
    Done("add_booking", "POST", "view_bookings")
    => LET b == nextId.bookings - 1
           c == request.form.car_id
       IN  /\ b \in DOMAIN bookings
           /\ bookings[b].status = "active"
           /\ bookings[b].car_id = c
           /\ c \in DOMAIN cars
           /\ cars[c].status = "rented"

\* A car that was in maintenance has just been booked.
C2_Witness ==
    /\ Done("add_booking", "POST", "view_bookings")
    /\ before.status = "maintenance"
    /\ cars[request.form.car_id].status = "rented"

C4_AddServiceSetsMaintenance ==
    Done("add_service", "POST", "view_services")
    => LET sv == nextId.services - 1
           c == request.form.car_id
       IN  /\ sv \in DOMAIN services
           /\ services[sv].car_id = c
           /\ c \in DOMAIN cars
           /\ cars[c].status = "maintenance"

\* A service was recorded for a rented car that has an active booking.
C4_Witness ==
    /\ Done("add_service", "POST", "view_services")
    /\ before.status = "rented"
    /\ \E b \in DOMAIN bookings :
          bookings[b].car_id = request.form.car_id /\ bookings[b].status = "active"
    /\ cars[request.form.car_id].status = "maintenance"

\* What a delete_car or delete_customer step that reached its handler body
\* must do to the tables.
C5_Step ==
    /\ (request'.route = "delete_car" /\ response'.target = "view_cars")
       => LET id == request'.id
          IN  /\ id \notin DOMAIN cars'
              /\ \A b \in DOMAIN bookings' : bookings'[b].car_id # id
              /\ \A sv \in DOMAIN services' : services'[sv].car_id # id
              /\ \A c \in DOMAIN cars \ {id} : c \in DOMAIN cars' /\ cars'[c] = cars[c]
              /\ \A b \in DOMAIN bookings :
                    bookings[b].car_id # id
                    => b \in DOMAIN bookings' /\ bookings'[b] = bookings[b]
              /\ \A sv \in DOMAIN services :
                    services[sv].car_id # id
                    => sv \in DOMAIN services' /\ services'[sv] = services[sv]
              /\ customers' = customers
              /\ users' = users
    /\ (request'.route = "delete_customer" /\ response'.target = "view_customers")
       => LET id == request'.id
          IN  /\ id \notin customers'
              /\ \A b \in DOMAIN bookings' : bookings'[b].customer_id # id
              /\ customers \ {id} \subseteq customers'
              /\ \A b \in DOMAIN bookings :
                    bookings[b].customer_id # id
                    => b \in DOMAIN bookings' /\ bookings'[b] = bookings[b]
              /\ cars' = cars
              /\ services' = services
              /\ users' = users

\* C5: delete_car removes the car with every booking and service that names
\* it, delete_customer removes the customer with every booking that names it,
\* and every other row stays as it was.
C5_DeleteCascades == [][C5_Step]_vars

\* A car that bookings or services referenced was deleted: none of its rows
\* remain, and the other car is still there.
C5_Witness ==
    /\ Done("delete_car", "POST", "view_cars")
    /\ before.rows >= 1
    /\ request.id \notin DOMAIN cars
    /\ \A b \in DOMAIN bookings : bookings[b].car_id # request.id
    /\ \A sv \in DOMAIN services : services[sv].car_id # request.id
    /\ DOMAIN cars # {}

\* What any step must respect about the session guard.
C6_Step ==
    /\ (~LoggedIn /\ request'.route \in AdminRoutes)
       => /\ response'.status = "redirect"
          /\ response'.target = "login"
          /\ response'.data = {}
          /\ tables' = tables
          /\ session' = session
    /\ ("user_id" \in DOMAIN session' /\ ~LoggedIn)
       => /\ request'.route = "login"
          /\ request'.method = "POST"
          /\ response'.target = "dashboard"
    /\ request'.route = "logout" => "user_id" \notin DOMAIN session'

\* C6: without user_id in the session every admin route answers with a
\* redirect to login that carries no row data and changes no table; user_id
\* enters the session only by a successful login and leaves it at logout.
C6_AdminRoutesGuarded == [][C6_Step]_vars

\* After a logout, a delete request for an existing car was turned away.
C6_Witness ==
    /\ ~LoggedIn
    /\ request.route = "delete_car"
    /\ request.method = "POST"
    /\ response.target = "login"
    /\ DOMAIN cars # {}
    /\ DOMAIN bookings # {}

\* What a login POST must do.
C7_Step ==
    (request'.route = "login" /\ request'.method = "POST")
    => LET u == request'.form.username
           p == request'.form.password
           known == \E r \in users : r.username = u
           matches == \E r \in users :
                         r.username = u /\ r.password_hash = generate_password_hash(p)
       IN  /\ (~known \/ (p # NoneVal /\ ~matches))
              => /\ session' = session
                 /\ response' = [status |-> "render", target |-> "login.html",
                                 flash |-> "Invalid credentials.", data |-> {},
                                 raised |-> NoneVal]
           /\ session' # session => known /\ matches

C9_EditBookingRecomputes ==
    (Done("edit_booking", "POST", "view_bookings") /\ request.id \in DOMAIN bookings)
    => LET row == bookings[request.id]
       IN  /\ row.car_id = request.form.car_id
           /\ row.car_id \in DOMAIN cars
           /\ row.total_cost = cars[row.car_id].price_per_day
                                 * Max(1, InclusiveDays(row.start_date, row.end_date))

\* The edited booking carries the cost at the car's present price while
\* another booking of the same car and dates still carries an older one.
C9_Witness ==
    /\ Done("edit_booking", "POST", "view_bookings")
    /\ request.id \in DOMAIN bookings
    /\ bookings[request.id].total_cost = 150
    /\ \E b \in DOMAIN bookings :
          /\ b # request.id
          /\ bookings[b].car_id = bookings[request.id].car_id
          /\ bookings[b].start_date = bookings[request.id].start_date
          /\ bookings[b].end_date = bookings[request.id].end_date
          /\ bookings[b].total_cost # bookings[request.id].total_cost

\* C10: no edit_service or delete_service request changes any car row.
C10_ServiceEditsKeepCars ==
    [][request'.route \in {"edit_service", "delete_service"} => cars' = cars]_vars

\* A service was moved to an available car, which stays available, while the
\* car left in maintenance has no service any more.
C10_Witness ==
    /\ Done("edit_service", "POST", "view_services")
    /\ request.id \in DOMAIN services
    /\ services[request.id].car_id = request.form.car_id
    /\ before.status = "available"
    /\ cars[request.form.car_id].status = "available"
    /\ \E c \in DOMAIN cars : cars[c].status = "maintenance" /\ ServicesOfCar(c) = {}

\* C8: delete_booking on an existing booking has set the booking's car to
\* available before the row is removed, whatever the booking's status and
\* whatever other bookings reference the car; when it has finished the
\* booking is gone and the car is available.
C8_DeleteBookingFreesCarFirst ==
    /\ (/\ inflight.route = "delete_booking"
        /\ inflight.at = "delete"
        /\ inflight.car_id # 0)
       => /\ inflight.id \in DOMAIN bookings
          /\ bookings[inflight.id].car_id = inflight.car_id
          /\ cars[inflight.car_id].status = "available"
    /\ (/\ Done("delete_booking", "POST", "view_bookings")
        /\ inflight = Idle
        /\ before.car # 0)
       => /\ request.id \notin DOMAIN bookings
          /\ cars[before.car].status = "available"

\* A booking of a rented car was deleted while another active booking still
\* references that car.
C8_Witness ==
    /\ Done("delete_booking", "POST", "view_bookings")
    /\ inflight = Idle
    /\ before.status = "rented"
    /\ request.id \notin DOMAIN bookings
    /\ cars[before.car].status = "available"
    /\ \E b \in DOMAIN bookings :
          bookings[b].car_id = before.car /\ bookings[b].status = "active"

\* The statuses that close a booking.
Closed == {"completed", "cancelled"}

\* C11 as stated: once a booking's status is completed or cancelled, no
\* step changes that booking's status again.
C11_ClosedIsTerminal ==
    [][\A b \in DOMAIN bookings \cap DOMAIN bookings' :
          bookings[b].status \in Closed => bookings'[b].status = bookings[b].status]_vars

\* What any step may do to booking statuses.
C11_Step ==
    /\ \A b \in DOMAIN bookings' \ DOMAIN bookings : bookings'[b].status = "active"
    /\ \A b \in DOMAIN bookings \cap DOMAIN bookings' :
          bookings'[b].status # bookings[b].status
          => /\ request'.route = "edit_booking"
             /\ request'.method = "POST"
             /\ request'.id = b
    /\ (/\ LoggedIn
        /\ request'.route = "edit_booking"
        /\ request'.method = "POST"
        /\ response'.status = "redirect"
        /\ request'.id \in DOMAIN bookings)
       => \A customer_id \in CustomerIds, range \in DateRangeInputs,
             status \in BookingStatusInputs :
             edit_booking_POST(request'.id, request'.form.car_id, customer_id,
                               range[1], range[2], status)
             => bookings'[request'.id].status = status

\* C11 amended: a booking is created active; the status of a stored booking
\* is changed only by an edit_booking POST on that booking, and a successful
\* one stores the submitted status whatever the current status is, so a
\* completed or cancelled booking can be set back to active.
C11_StatusChangesOnlyByEdit == [][C11_Step]_vars

\* A booking that was completed or cancelled has been set back to active.
C11_Witness ==
    /\ Done("edit_booking", "POST", "view_bookings")
    /\ before.booking \in Closed
    /\ request.id \in DOMAIN bookings
    /\ bookings[request.id].status = "active"

\* The users table holds the default admin account and nothing else.
C12_Users ==
    /\ Cardinality(users) = 1
    /\ \A r \in users :
          /\ r.username = ADMIN_DEFAULT_USERNAME
          /\ check_password_hash(r.password_hash, ADMIN_DEFAULT_PASSWORD)

\* A run of init_db on a store that has been started before changes no table.
C12_Step == request'.route = "init_db" => tables' = tables

\* C12: init_db on the empty store creates the default admin; in every
\* state reached by restarts interleaved with the other operations the users
\* table holds exactly that one row, and every later run of init_db leaves
\* all five tables and the AUTO_INCREMENT counters as they were.
C12_InitDbIdempotent ==
    /\ Cardinality(init_db({})) = 1
    /\ init_db(init_db({})) = init_db({})
    /\ []C12_Users
    /\ [][C12_Step]_vars

\* The process was restarted with rows in every table and a session open.
C12_Witness ==
    /\ request.route = "init_db"
    /\ LoggedIn
    /\ DOMAIN cars # {}
    /\ customers # {}
    /\ DOMAIN bookings # {}
    /\ DOMAIN services # {}
    /\ C12_Users

\* The rows of the entity an edit or delete route addresses, and its list view.
EntityIds(route) ==
    IF route \in {"edit_car", "delete_car"} THEN DOMAIN cars
    ELSE IF route \in {"edit_customer", "delete_customer"} THEN customers
    ELSE IF route \in {"edit_booking", "delete_booking"} THEN DOMAIN bookings
    ELSE DOMAIN services

ListView(route) ==
    IF route \in {"edit_car", "delete_car"} THEN "view_cars"
    ELSE IF route \in {"edit_customer", "delete_customer"} THEN "view_customers"
    ELSE IF route \in {"edit_booking", "delete_booking"} THEN "view_bookings"
    ELSE "view_services"

EditOrDelete ==
    {"edit_car", "delete_car", "edit_customer", "delete_customer",
     "edit_booking", "delete_booking", "edit_service", "delete_service"}

\* The step is a request, passed by admin_required, that names an id with no row.
NamesMissingRow ==
    /\ LoggedIn
    /\ request'.route \in EditOrDelete
    /\ request'.id \notin EntityIds(request'.route)

\* The step ends in a notice and a redirect to the entity's list view.
NoticeAndList ==
    /\ response'.status = "redirect"
    /\ response'.target = ListView(request'.route)
    /\ response'.flash # NoneVal

\* C13 as stated: every edit or delete request that names an id with no row,
\* GET or POST, ends in a notice and a redirect to the list view.
C13_NotFoundIsHandled == [][NamesMissingRow => NoticeAndList]_vars

\* The step is an edit_booking POST that calc_total_cost left with the
\* ValueError strptime raises for a date it cannot parse, no table changed.
DatesDoNotParse ==
    /\ request'.route = "edit_booking"
    /\ request'.method = "POST"
    /\ response' = InternalServerError("ValueError")
    /\ tables' = tables

C13_Step == NamesMissingRow => (NoticeAndList \/ DatesDoNotParse)

\* C13 amended: an edit or delete request that names an id with no row ends
\* in a notice and a redirect to the entity's list view, for the GET edit
\* form, the POST edit and the POST delete alike, except that an edit_booking
\* POST parses its dates before it looks for the row: a date that does not
\* parse ends it in an unhandled failure (ValueError) with no table changed,
\* and otherwise it ends in the notice and the redirect.
C13_NotFoundIsHandledWhenDatesParse == [][C13_Step]_vars

\* An edit_booking POST for a booking that does not exist was answered with
\* 'Booking updated.' and the list of bookings.
C13_Witness ==
    /\ Done("edit_booking", "POST", "view_bookings")
    /\ request.id \notin DOMAIN bookings
    /\ before.booking = NoneVal
    /\ response.flash = "Booking updated."

\* C14: when a request has ended, succeeded or failed, the connection it
\* took from get_connection() is closed, so no connection stays open after
\* any sequence of requests.
C14_ConnectionsClosed == conn # "open"

\* C15: in every reachable state each booking names an existing car and an
\* existing customer and each service names an existing car.
C15_ReferentialIntegrity ==
    /\ \A b \in DOMAIN bookings :
          /\ bookings[b].car_id \in DOMAIN cars
          /\ bookings[b].customer_id \in customers
    /\ \A sv \in DOMAIN services : services[sv].car_id \in DOMAIN cars

\* An edit_service POST that named a car with no row was rejected by the
\* foreign key, and the service still names its car.
C15_Witness ==
    /\ request.route = "edit_service"
    /\ request.method = "POST"
    /\ response = InternalServerError("IntegrityError")
    /\ request.form.car_id \notin DOMAIN cars
    /\ request.id \in DOMAIN services
    /\ services[request.id].car_id \in DOMAIN cars
    /\ DOMAIN bookings # {}

CarStatuses == {"available", "rented", "maintenance"}
BookingStatuses == {"active", "completed", "cancelled"}

\* C16: every stored car status is one of available, rented, maintenance
\* and every stored booking status one of active, completed, cancelled,
\* whatever status values add_car, edit_car and edit_booking were sent.
C16_StatusDomains ==
    /\ \A c \in DOMAIN cars : cars[c].status \in CarStatuses
    /\ \A b \in DOMAIN bookings : bookings[b].status \in BookingStatuses

\* C17: every stored booking's total_cost is at least zero, whatever price
\* add_car and edit_car and whatever dates add_booking and edit_booking were
\* sent.
C17_TotalCostNonNegative == \A b \in DOMAIN bookings : bookings[b].total_cost >= 0

\* The last request was route and stopped before it ran statement at.
StoppedBefore(route, at) ==
    /\ inflight = Idle
    /\ request.route = route
    /\ response.status \in {"stopped", "error"}
    /\ response.target = at

\* add_booking has committed its INSERT and not its UPDATE: in flight, or stopped there.
BetweenInsertAndUpdate ==
    \/ inflight.route = "add_booking" /\ inflight.at = "update"
    \/ StoppedBefore("add_booking", "update")

\* delete_booking has committed its UPDATE and not its DELETE.
BetweenUpdateAndDelete ==
    /\ before.car # 0
    /\ \/ inflight.route = "delete_booking" /\ inflight.at = "delete"
       \/ StoppedBefore("delete_booking", "delete")

\* C18 as stated: a request that stops between add_booking's INSERT and its
\* UPDATE leaves an active booking whose car is not rented, and one that stops
\* between delete_booking's UPDATE and its DELETE leaves the booking in place
\* with its car available.
C18_StopLeavesCarNotRented ==
    /\ StoppedBefore("add_booking", "update")
       => LET b == nextId.bookings - 1
          IN  /\ b \in DOMAIN bookings
              /\ bookings[b].status = "active"
              /\ cars[bookings[b].car_id].status # "rented"
    /\ (StoppedBefore("delete_booking", "delete") /\ before.car # 0)
       => /\ request.id \in DOMAIN bookings
          /\ cars[before.car].status = "available"

\* C18 amended: between add_booking's INSERT and its UPDATE, and after a
\* request that stopped there, the new booking is stored and active and its
\* car has the status it had when the request arrived (available or
\* maintenance for a car the form offers, so not rented; rented if it already
\* was); between delete_booking's UPDATE and its DELETE, and after a request
\* that stopped there, the booking is in place and its car is available.
C18_StopLeavesCarAsItWas ==
    /\ BetweenInsertAndUpdate
       => LET b == nextId.bookings - 1
          IN  /\ b \in DOMAIN bookings
              /\ bookings[b].status = "active"
              /\ bookings[b].car_id = before.car
              /\ cars[before.car].status = before.status
    /\ BetweenUpdateAndDelete
       => /\ request.id \in DOMAIN bookings
          /\ bookings[request.id].car_id = before.car
          /\ cars[before.car].status = "available"

\* An add_booking for an available car stopped after its INSERT: the booking
\* is active, the car is still available and no request is in flight.
C18_Witness ==
    /\ StoppedBefore("add_booking", "update")
    /\ response.status = "stopped"
    /\ before.status = "available"
    /\ bookings[nextId.bookings - 1].status = "active"
    /\ cars[before.car].status = "available"

\* Two date ranges share a day.
Overlap(b1, b2) ==
    /\ ~Earlier(bookings[b1].end_date, bookings[b2].start_date)
    /\ ~Earlier(bookings[b2].end_date, bookings[b1].start_date)

\* What an add_booking request, passed by admin_required, must do.
C19_Step ==
    (LoggedIn /\ request'.route = "add_booking")
    => /\ request'.method = "POST"
          => \A customer_id \in customers, range \in DateRangeInputs :
                (/\ request'.form.car_id \in DOMAIN cars
                 /\ WellFormed(range[1])
                 /\ WellFormed(range[2])
                 /\ add_booking_POST(request'.form.car_id, customer_id, range[1], range[2]))
                => /\ response' = redirect("view_bookings", "Booking created.")
                   /\ nextId.bookings \in DOMAIN bookings' \ DOMAIN bookings
                   /\ bookings'[nextId.bookings].status = "active"
                   /\ bookings'[nextId.bookings].car_id = request'.form.car_id
       /\ request'.method = "GET"
          => response'.data =
                Rows("cars", {c \in DOMAIN cars : cars[c].status \in {"available", "maintenance"}})
                    \cup Rows("customers", customers)

\* C19: an add_booking POST that names an existing car and customer with
\* dates that parse creates the active booking whatever the car's status and
\* whatever bookings the car already has; the GET form alone is restricted,
\* to the cars whose status is available or maintenance.
C19_NoAvailabilityCheck == [][C19_Step]_vars

\* A car that was already rented was booked again: two active bookings of
\* the same car whose date ranges overlap.
C19_Witness ==
    /\ Done("add_booking", "POST", "view_bookings")
    /\ before.status = "rented"
    /\ \E b1, b2 \in DOMAIN bookings :
          /\ b1 # b2
          /\ bookings[b1].car_id = before.car
          /\ bookings[b2].car_id = before.car
          /\ bookings[b1].status = "active"
          /\ bookings[b2].status = "active"
          /\ ~Earlier(bookings[b1].end_date, bookings[b1].start_date)
          /\ ~Earlier(bookings[b2].end_date, bookings[b2].start_date)
          /\ Overlap(b1, b2)

\* What an edit_car request, GET or POST, leaves alone.
C20_Step ==
    request'.route = "edit_car"
    => /\ bookings' = bookings
       /\ services' = services
       /\ customers' = customers
       /\ users' = users
       /\ DOMAIN cars' = DOMAIN cars
       /\ \A c \in DOMAIN cars : c # request'.id => cars'[c] = cars[c]

\* C20: edit_car changes the addressed car row and nothing else: every
\* booking row, its total_cost included, every service, customer and user
\* and every other car stay as they were.
C20_EditCarLeavesBookings == [][C20_Step]_vars

\* After an edit_car POST a booking of the edited car carries a total_cost
\* that is no longer the car's price times the booked days.
C20_Witness ==
    /\ Done("edit_car", "POST", "view_cars")
    /\ request.id \in DOMAIN cars
    /\ \E b \in DOMAIN bookings :
          /\ bookings[b].car_id = request.id
          /\ bookings[b].total_cost = 150
          /\ calc_total_cost(cars[request.id].price_per_day,
                             bookings[b].start_date, bookings[b].end_date) = 0

\* What an edit_booking POST, passed by admin_required, may do to the cars.
C21_Step ==
    (LoggedIn /\ request'.route = "edit_booking" /\ request'.method = "POST")
    => /\ DOMAIN cars' = DOMAIN cars
       /\ \A c \in DOMAIN cars : c # request'.form.car_id => cars'[c] = cars[c]
       /\ \A c \in DOMAIN cars : cars'[c].price_per_day = cars[c].price_per_day
       /\ response'.status # "redirect" => cars' = cars
       /\ (/\ request'.id \in DOMAIN bookings'
           /\ bookings'[request'.id].status \notin Closed)
          => cars' = cars
       /\ \A customer_id \in CustomerIds, range \in DateRangeInputs,
             status \in BookingStatusInputs \ Closed :
             edit_booking_POST(request'.id, request'.form.car_id, customer_id,
                               range[1], range[2], status)
             => cars' = cars

\* C21: an edit_booking POST whose submitted status is neither completed nor
\* cancelled changes no car, whether or not the booking exists, whichever car
\* it names and whatever the booking's status was; one that submits completed
\* or cancelled changes at most the status of the car named in the
\* submission, so the car the booking referenced before stays as it was.
C21_EditBookingLeavesCars == [][C21_Step]_vars

\* An active booking has been moved to another car and kept active: the car
\* it names now was not set to rented, and the car it named before is still
\* rented with no booking referencing it.
C21_Witness ==
    /\ Done("edit_booking", "POST", "view_bookings")
    /\ request.id \in DOMAIN bookings
    /\ before.booking = "active"
    /\ bookings[request.id].status = "active"
    /\ bookings[request.id].car_id = before.car
    /\ before.status = "available"
    /\ cars[before.car].status = "available"
    /\ \E c \in DOMAIN cars :
          /\ c # before.car
          /\ cars[c].status = "rented"
          /\ \A b \in DOMAIN bookings : bookings[b].car_id # c

\* The requests whose handlers write the status column of a cars row.
CarStatusWriters == {"edit_car", "add_booking", "edit_booking", "delete_booking", "add_service"}

\* What a delete_customer request may do, and what may change a car's status.
C22_Step ==
    /\ (LoggedIn /\ request'.route = "delete_customer")
       => /\ cars' = cars
          /\ services' = services
          /\ users' = users
          /\ customers' = customers \ {request'.id}
          /\ DOMAIN bookings' = {b \in DOMAIN bookings : bookings[b].customer_id # request'.id}
          /\ \A b \in DOMAIN bookings' : bookings'[b] = bookings[b]
    /\ \A c \in DOMAIN cars \cap DOMAIN cars' :
          cars'[c].status # cars[c].status
          => /\ request'.route \in CarStatusWriters
             /\ request'.method = "POST"

\* C22: delete_customer removes the customer and, by cascade, the bookings
\* of that customer, and changes no car row; the status of a stored car is
\* changed only by an edit_car, add_service, add_booking, edit_booking or
\* delete_booking POST, so a car left rented stays rented until one of them.
C22_DeleteCustomerLeavesCars == [][C22_Step]_vars

\* A customer whose bookings held the only car was deleted: the bookings are
\* gone and the car is still rented with no booking referencing it.
C22_Witness ==
    /\ Done("delete_customer", "POST", "view_customers")
    /\ before.rows >= 1
    /\ request.id \notin customers
    /\ bookings = <<>>
    /\ \E c \in DOMAIN cars :
          /\ DOMAIN cars = {c}
          /\ cars[c].status = "rented"

\* The step is an edit or delete POST, passed by admin_required, that names
\* an id with no row of its entity.
PostNamesMissingRow == NamesMissingRow /\ request'.method = "POST"

\* C23: an edit POST or delete POST that names an id matching no row of its
\* entity leaves every table unchanged: no row is created, modified or
\* removed and no car's status changes.
C23_MissingIdChangesNothing == [][PostNamesMissingRow => tables' = tables]_vars

\* C23, what the handlers do: every such request but edit_booking leaves the
\* tables unchanged; an edit_booking POST for a missing booking leaves all
\* but the car named in the submission unchanged, and sets that car, when it
\* exists, to available when the submitted status is completed or cancelled.
C23_Step ==
    PostNamesMissingRow
    => /\ request'.route # "edit_booking" => tables' = tables
       /\ request'.route = "edit_booking"
          => /\ <<users, customers, bookings, services, nextId>>'
                   = <<users, customers, bookings, services, nextId>>
             /\ \A customer_id \in CustomerIds, range \in DateRangeInputs,
                   status \in BookingStatusInputs :
                   edit_booking_POST(request'.id, request'.form.car_id, customer_id,
                                     range[1], range[2], status)
                   => cars' = IF /\ status \in Closed
                                 /\ WellFormed(range[1])
                                 /\ WellFormed(range[2])
                              THEN UpdateCarStatus(cars, request'.form.car_id, "available")
                              ELSE cars

C23_OnlyEditBookingWrites == [][C23_Step]_vars

\* An edit_booking POST for a booking that does not exist has set a rented
\* car, still referenced by an active booking, to available.
C23_Reached ==
    /\ Done("edit_booking", "POST", "view_bookings")
    /\ before.booking = NoneVal
    /\ request.id \notin DOMAIN bookings
    /\ before.status = "rented"
    /\ cars[before.car].status = "available"
    /\ \E b \in DOMAIN bookings :
          /\ bookings[b].car_id = before.car
          /\ bookings[b].status = "active"

=============================================================================
